---- MODULE Spec2Model ----
(***************************************************************************)
(* Monte Carlo simulator for commodity futures hedging                     *)
(* (src/src/simulator.py, driven by src/app.py).                           *)
(*                                                                         *)
(* Numbers.  A value of the program is a double.  The model keeps a value  *)
(* as an exact rational <<n, d>> in lowest terms with d > 0, or as         *)
(* NaN == <<0, 0>>.  Element-wise arithmetic (products, the interpolation  *)
(* of a percentile, bin edges) is exact.  The reductions by summation      *)
(* (np.mean, and through it np.std) round as a binary floating-point       *)
(* format with Precision significand bits does: every partial sum and the  *)
(* final quotient is rounded to nearest, ties to even.  A double has 53    *)
(* significand bits; the model's format is the same format with fewer      *)
(* bits.  An entry that needs more bits than the format has is rounded as  *)
(* it enters the sum; the integers of the requests and their products with *)
(* powers of two need no more.                                             *)
(*                                                                         *)
(* Prices.  np.exp and the normal variates are kept on a grid: a variate   *)
(* is an integer number of grid steps, one step of the exponent multiplies *)
(* the price by 2, and the drift term (below half a step for the horizons  *)
(* of the model) contributes no step.                                      *)
(***************************************************************************)
EXTENDS Integers, Sequences, FiniteSets, TLC

\* ------------------------------------------------------------------ bounds
MaxSims == 3          \* largest n_simulations of a request
MaxVolume == 2        \* largest volume of a request
MaxPrice == 4         \* largest price of a vector handed to calculate_pnl
MaxPnl == 3           \* largest |entry| of a vector handed to calculate_risk_metrics
Precision == 3        \* significand bits of the floating-point format
RngPeriod == 4        \* number of states of the pseudorandom generator
MaxSpot == 2          \* largest spot_price of a request
MaxLen == 3           \* longest vector handed to a function checked alone
MarketPrice == 3      \* the current price the data loader reports

\* ---------------------------------------------------------------- numbers
Abs(x) == IF x < 0 THEN -x ELSE x

RECURSIVE GCD(_, _)
GCD(a, b) == IF b = 0 THEN a ELSE GCD(b, a % b)

NaN == <<0, 0>>
IsNaN(x) == x[2] = 0

\* the rational n/d (d # 0) in lowest terms with a positive denominator
Rat(n, d) ==
    LET g == GCD(Abs(n), Abs(d))
        s == IF d < 0 THEN -1 ELSE 1
    IN  <<s * (n \div g), s * (d \div g)>>

Num(n) == <<n, 1>>
Zero == <<0, 1>>
One == <<1, 1>>
Half == <<1, 2>>

RAdd(a, b) == IF IsNaN(a) \/ IsNaN(b) THEN NaN
              ELSE Rat(a[1] * b[2] + b[1] * a[2], a[2] * b[2])
RSub(a, b) == IF IsNaN(a) \/ IsNaN(b) THEN NaN
              ELSE Rat(a[1] * b[2] - b[1] * a[2], a[2] * b[2])
RMul(a, b) == IF IsNaN(a) \/ IsNaN(b) THEN NaN
              ELSE Rat(a[1] * b[1], a[2] * b[2])
\* x / 0 only occurs as 0 / 0 in the program's formulas on the model's inputs
RDiv(a, b) == IF IsNaN(a) \/ IsNaN(b) \/ b[1] = 0 THEN NaN
              ELSE Rat(a[1] * b[2], a[2] * b[1])

\* comparisons; every comparison with NaN is false, as for doubles
RLt(a, b) == ~IsNaN(a) /\ ~IsNaN(b) /\ a[1] * b[2] < b[1] * a[2]
RLe(a, b) == ~IsNaN(a) /\ ~IsNaN(b) /\ a[1] * b[2] <= b[1] * a[2]
RGt(a, b) == RLt(b, a)
RGe(a, b) == RLe(b, a)

\* floor of a rational (integer division rounds towards minus infinity)
RFloor(a) == a[1] \div a[2]

RECURSIVE Pow2(_)
Pow2(k) == IF k = 0 THEN 1 ELSE 2 * Pow2(k - 1)

\* round a rational to the nearest integer, ties to the even one
RoundHalfEven(q) ==
    LET f == RFloor(q)
        r == RSub(q, Num(f))
    IN  IF RLt(r, Half) THEN f
        ELSE IF RGt(r, Half) THEN f + 1
        ELSE IF f % 2 = 0 THEN f ELSE f + 1

\* round a positive rational to Precision significand bits
RECURSIVE FRoundPos(_)
FRoundPos(q) ==
    IF RGe(q, Num(Pow2(Precision))) THEN RMul(Num(2), FRoundPos(RMul(q, Half)))
    ELSE IF RLt(q, Num(Pow2(Precision - 1))) THEN RMul(Half, FRoundPos(RMul(q, Num(2))))
    ELSE Num(RoundHalfEven(q))

\* the double nearest to q
FRound(q) ==
    IF IsNaN(q) THEN NaN
    ELSE IF q[1] = 0 THEN Zero
    ELSE IF q[1] < 0 THEN RSub(Zero, FRoundPos(RSub(Zero, q)))
    ELSE FRoundPos(q)

\* ---------------------------------------------------------------- vectors
Range(v) == {v[i] : i \in 1..Len(v)}
HasNaN(v) == \E i \in 1..Len(v) : IsNaN(v[i])

\* np.sort: ascending, by insertion
RECURSIVE Insert(_, _)
Insert(x, v) ==
    IF v = <<>> THEN <<x>>
    ELSE IF RLe(x, Head(v)) THEN <<x>> \o v
    ELSE <<Head(v)>> \o Insert(x, Tail(v))

RECURSIVE Sort(_)
Sort(v) == IF v = <<>> THEN <<>> ELSE Insert(Head(v), Sort(Tail(v)))

\* v[::-1]
Reverse(v) == [i \in 1..Len(v) |-> v[Len(v) + 1 - i]]

\* np.max / np.min of a non-empty vector: NaN as soon as one entry is NaN
VMax(v) == IF HasNaN(v) THEN NaN
           ELSE CHOOSE x \in Range(v) : \A y \in Range(v) : RLe(y, x)
VMin(v) == IF HasNaN(v) THEN NaN
           ELSE CHOOSE x \in Range(v) : \A y \in Range(v) : RLe(x, y)

\* np.maximum.accumulate
CumMax(v) == [i \in 1..Len(v) |-> VMax(SubSeq(v, 1, i))]

\* the summation loop of np.add.reduce for fewer than 8 entries: one
\* accumulator, starting at 0, rounded after every addition
RECURSIVE FSum(_)
FSum(v) == IF v = <<>> THEN Zero
           ELSE FRound(RAdd(FSum(SubSeq(v, 1, Len(v) - 1)), v[Len(v)]))

\* np.mean: the rounded sum divided by the count, rounded; NaN when empty
Mean(v) == IF v = <<>> THEN NaN ELSE FRound(RDiv(FSum(v), Num(Len(v))))

\* np.var, the square of np.std: the mean of the squared deviations from
\* the mean.  np.std is its square root, positive exactly when it is.
Variance(v) ==
    LET m == Mean(v)
    IN  Mean([i \in 1..Len(v) |-> RMul(RSub(v[i], m), RSub(v[i], m))])

\* interpolation between entries of the vector as given, not sorted
PercentileUnsorted(v, q) ==
    IF HasNaN(v) THEN NaN
    ELSE LET n == Len(v)
             idx == Rat(q * (n - 1), 100)
             lo == RFloor(idx)
             hi == IF lo + 1 > n - 1 THEN n - 1 ELSE lo + 1
             gamma == RSub(idx, Num(lo))
         IN  RAdd(v[lo + 1], RMul(RSub(v[hi + 1], v[lo + 1]), gamma))

\* np.percentile(v, q), linear interpolation between the order statistics
\* below and above the virtual index q/100 * (n - 1)
Percentile(v, q) ==
    IF HasNaN(v) THEN NaN
    ELSE LET a == Sort(v)
             n == Len(v)
             idx == Rat(q * (n - 1), 100)
             lo == RFloor(idx)
             hi == IF lo + 1 > n - 1 THEN n - 1 ELSE lo + 1
             gamma == RSub(idx, Num(lo))
         IN  RAdd(a[lo + 1], RMul(RSub(a[hi + 1], a[lo + 1]), gamma))

\* np.median
Median(v) == Percentile(v, 50)

\* ------------------------------------------------------- simulate_prices
\* The pseudorandom generator of the numpy module has one state, stepped
\* by every variate drawn.
\* the standard-normal variate a generator state yields, in grid steps
Variate(s) == (s % 3) - 1

\* np.random.standard_normal(n) from state s: the variates, in order
StandardNormal(s, n) == [i \in 1..n |-> Variate((s + i - 1) % RngPeriod)]

\* the state standard_normal(n) leaves the generator in
RngAfter(s, n) == (s + n) % RngPeriod

\* np.exp of e grid steps
Exp(e) == IF e >= 0 THEN Num(Pow2(e)) ELSE Rat(1, Pow2(-e))

\* final_prices of simulate_prices: np.sqrt(dt) is NaN for a negative
\* horizon and 0 for horizon 0; the exponent is volatility * sqrt(dt) * z
SimulatePrices(spot_price, time_horizon, volatility, z) ==
    [i \in 1..Len(z) |->
        IF time_horizon < 0 THEN NaN
        ELSE IF time_horizon = 0 THEN RMul(spot_price, Exp(0))
        ELSE RMul(spot_price, Exp(volatility * z[i]))]

\* --------------------------------------------------------- calculate_pnl
Strategies == {"no_hedge", "full_hedge", "partial_hedge", "dynamic_hedge"}

\* a hedge ratio that hedges the whole volume
HedgeRatioWhole == One

\* hedge_ratio of the partial_hedge branch
HedgeRatio == Half

\* np.clip(x, 0, 1); NaN stays NaN
Clip01(x) == IF IsNaN(x) THEN NaN
             ELSE IF RLt(x, Zero) THEN Zero
             ELSE IF RGt(x, One) THEN One ELSE x

\* the hedge ratio without np.clip
DynamicRatioUnclipped(futures_price, price) ==
    RAdd(Half, RDiv(RMul(Half, RSub(futures_price, price)), futures_price))

\* hedge_ratios of the dynamic_hedge branch, for one terminal price
DynamicRatio(futures_price, price) ==
    Clip01(RAdd(Half, RDiv(RMul(Half, RSub(futures_price, price)), futures_price)))

\* the P&L of one scenario under a known strategy
PnlEntry(volume, futures_price, price, strategy) ==
    CASE strategy = "no_hedge" -> RMul(volume, price)
      [] strategy = "full_hedge" -> RMul(volume, futures_price)
      [] strategy = "partial_hedge" ->
            LET hedged_volume == RMul(volume, HedgeRatio)
                unhedged_volume == RMul(volume, RSub(One, HedgeRatio))
            IN  RAdd(RMul(hedged_volume, futures_price), RMul(unhedged_volume, price))
      [] strategy = "dynamic_hedge" ->
            LET r == DynamicRatio(futures_price, price)
            IN  RAdd(RMul(RMul(volume, r), futures_price),
                     RMul(RMul(volume, RSub(One, r)), price))

\* calculate_pnl with an unknown strategy treated as no_hedge
CalculatePnlFallback(volume, spot_price, futures_price, final_prices, strategy) ==
    [raised |-> "none",
     pnl |-> [i \in 1..Len(final_prices) |->
                 PnlEntry(volume, futures_price, final_prices[i],
                          IF strategy \in Strategies THEN strategy ELSE "no_hedge")]]

\* calculate_pnl: the P&L vector, or the ValueError of the last branch
CalculatePnl(volume, spot_price, futures_price, final_prices, strategy) ==
    IF strategy \in Strategies
    THEN [raised |-> "none",
          pnl |-> [i \in 1..Len(final_prices) |->
                      PnlEntry(volume, futures_price, final_prices[i], strategy)]]
    ELSE [raised |-> "UnknownStrategy", pnl |-> <<>>]

\* ------------------------------------------------ calculate_risk_metrics
\* risk_free_rate
RiskFreeRate == Rat(3, 100)

\* pnl[pnl <= var_95]
LossTail(pnl, var_95) == SelectSeq(pnl, LAMBDA x : RLe(x, var_95))

\* sharpe_ratio, as the pair <<a, b>> that stands for a / sqrt(b):
\* (mean / mean - risk_free_rate) / (std / mean) if std > 0, else 0
SharpeRatio(mean_pnl, var_pnl) ==
    IF RGt(var_pnl, Zero)
    THEN <<RMul(RSub(RDiv(mean_pnl, mean_pnl), RiskFreeRate), mean_pnl), var_pnl>>
    ELSE <<Zero, One>>

\* the drawdown of the vector taken as a path, in the order given
MaxDrawdownPath(pnl) ==
    LET cummax == CumMax(pnl)
        drawdown == [i \in 1..Len(pnl) |-> RDiv(RSub(cummax[i], pnl[i]), cummax[i])]
    IN  IF Len(drawdown) > 0 THEN RMul(VMax(drawdown), Num(100)) ELSE Zero

\* max_drawdown * 100 over the vector sorted in descending order
MaxDrawdown(pnl) ==
    LET sorted == Reverse(Sort(pnl))
        cummax == CumMax(sorted)
        drawdown == [i \in 1..Len(pnl) |-> RDiv(RSub(cummax[i], sorted[i]), cummax[i])]
    IN  IF Len(drawdown) > 0 THEN RMul(VMax(drawdown), Num(100)) ELSE Zero

\* the dictionary calculate_risk_metrics returns for a non-empty vector;
\* variance stands for std (std = sqrt(variance))
CalculateRiskMetrics(pnl) ==
    LET mean_pnl == Mean(pnl)
        var_pnl == Variance(pnl)
        var_95 == Percentile(pnl, 5)
    IN  [mean |-> mean_pnl,
         variance |-> var_pnl,
         min |-> VMin(pnl),
         max |-> VMax(pnl),
         var_95 |-> var_95,
         es_95 |-> Mean(LossTail(pnl, var_95)),
         sharpe_ratio |-> SharpeRatio(mean_pnl, var_pnl),
         max_drawdown |-> MaxDrawdown(pnl),
         percentile_5 |-> Percentile(pnl, 5),
         percentile_25 |-> Percentile(pnl, 25),
         percentile_50 |-> Percentile(pnl, 50),
         percentile_75 |-> Percentile(pnl, 75),
         percentile_95 |-> Percentile(pnl, 95)]

\* ---------------------------------------------------------- np.histogram
\* bins=50
NumBins == 50

\* the range np.histogram partitions: [min, max], widened by 0.5 on each
\* side when all values are equal
FirstEdge(v) == IF VMin(v) = VMax(v) THEN RSub(VMin(v), Half) ELSE VMin(v)
LastEdge(v) == IF VMin(v) = VMax(v) THEN RAdd(VMax(v), Half) ELSE VMax(v)

\* np.linspace(first_edge, last_edge, 51)
BinEdges(first_edge, last_edge) ==
    [k \in 1..(NumBins + 1) |->
        RAdd(first_edge,
             RDiv(RMul(Num(k - 1), RSub(last_edge, first_edge)), Num(NumBins)))]

\* the bin of x, a value at the last edge falling outside
BinIndexOpen(first_edge, last_edge, x) ==
    RFloor(RDiv(RMul(RSub(x, first_edge), Num(NumBins)), RSub(last_edge, first_edge)))

\* the bin of x: equal-width bins, the last one closed on the right
BinIndex(first_edge, last_edge, x) ==
    LET f == RFloor(RDiv(RMul(RSub(x, first_edge), Num(NumBins)),
                         RSub(last_edge, first_edge)))
    IN  IF f = NumBins THEN NumBins - 1 ELSE f

\* np.histogram(v, bins=50) of a vector of finite values
Histogram(v) ==
    LET first_edge == FirstEdge(v)
        last_edge == LastEdge(v)
        idx == [i \in 1..Len(v) |-> BinIndex(first_edge, last_edge, v[i])]
    IN  [counts |-> [k \in 1..NumBins |->
                        Cardinality({i \in 1..Len(v) : idx[i] = k - 1})],
         bins |-> BinEdges(first_edge, last_edge)]

\* ------------------------------------------------------------------ state
Runs == {1, 2}

VARIABLES
    rng,            \* state of the generator of the numpy module (global)
    seed,           \* the state the generator was seeded with
    current_price,  \* self.current_price, from the data loader
    volatility,     \* self.volatility, from the data loader
    pc,             \* per request: where its run_simulation call stands
    req,            \* per request: the arguments of run_simulation
    spot_price,     \* per request: the resolved spot price
    final_prices,   \* per request: the vector simulate_prices returned
    pnl,            \* per request: the vector calculate_pnl returned
    metrics,        \* per request: the dictionary of calculate_risk_metrics
    result,         \* per request: the dictionary run_simulation returned
    error           \* per request: the exception that ended the call

vars == <<rng, seed, current_price, volatility, pc, req, spot_price,
          final_prices, pnl, metrics, result, error>>

StrategyIds == Strategies \cup {"foo_hedge"}

\* the requests of the service: any numbers the JSON payload can carry
Requests ==
    [volume : -1..MaxVolume,
     spot_price : 0..MaxSpot,
     time_horizon : {-1, 0, 6},
     strategy : StrategyIds,
     n_simulations : -1..MaxSims]

\* requests with valid parameters, for the runs that overlap
ValidRequests ==
    [volume : {1},
     spot_price : {0, MaxSpot},
     time_horizon : {6},
     strategy : {"no_hedge", "full_hedge", "foo_hedge"},
     n_simulations : 1..(MaxSims - 1)]

\* all vectors of 1..MaxLen integers taken from S
Vectors(S) == UNION {[1..n -> {Num(x) : x \in S}] : n \in 1..MaxLen}

Fresh ==
    /\ spot_price = [r \in Runs |-> Zero]
    /\ final_prices = [r \in Runs |-> <<>>]
    /\ pnl = [r \in Runs |-> <<>>]
    /\ metrics = [r \in Runs |-> <<>>]
    /\ result = [r \in Runs |-> <<>>]
    /\ error = [r \in Runs |-> "none"]

Market ==
    /\ seed \in 0..(RngPeriod - 1)
    /\ rng = seed
    /\ current_price = Num(MarketPrice)
    /\ volatility \in {0, 1}

\* the market of the functions checked on their own, which read none of it
MarketAtRest ==
    /\ seed = 0
    /\ rng = seed
    /\ current_price = Num(MarketPrice)
    /\ volatility = 0

\* one request at a time
Init ==
    /\ Market
    /\ Fresh
    /\ \E q \in Requests : req = [r \in Runs |-> q]
    /\ pc = [r \in Runs |-> IF r = 1 THEN "called" ELSE "idle"]

\* two requests served by two threads of the one process
InitConc ==
    /\ Market
    /\ Fresh
    /\ req \in [Runs -> ValidRequests]
    /\ pc = [r \in Runs |-> "called"]

\* ------------------------------------------------------------- run_simulation
\* An exception raised anywhere in run_simulation leaves it without a return
\* value; simulate() turns it into the 400 response {'error': str(e)}.
Raise(r, e) ==
    /\ pc' = [pc EXCEPT ![r] = "failed"]
    /\ error' = [error EXCEPT ![r] = e]

\* lines 161-166: resolve the spot price and draw the terminal prices.
\* standard_normal raises ValueError for a negative count.
SimulatePricesStep(r) ==
    /\ pc[r] = "called"
    /\ LET q == req[r]
           spot == IF q.spot_price = 0 THEN current_price ELSE Num(q.spot_price)
       IN  /\ spot_price' = [spot_price EXCEPT ![r] = spot]
           /\ IF q.n_simulations < 0
              THEN /\ Raise(r, "NegativeDimensions")
                   /\ UNCHANGED <<rng, final_prices>>
              ELSE /\ final_prices' = [final_prices EXCEPT ![r] =
                          SimulatePrices(spot, q.time_horizon, volatility,
                                         StandardNormal(rng, q.n_simulations))]
                   /\ rng' = RngAfter(rng, q.n_simulations)
                   /\ pc' = [pc EXCEPT ![r] = "priced"]
                   /\ UNCHANGED error
    /\ UNCHANGED <<seed, current_price, volatility, req, pnl, metrics, result>>

\* lines 168-170: futures_price = spot_price; calculate_pnl
CalculatePnlStep(r) ==
    /\ pc[r] = "priced"
    /\ LET futures_price == spot_price[r]
           out == CalculatePnl(Num(req[r].volume), spot_price[r], futures_price,
                               final_prices[r], req[r].strategy)
       IN  IF out.raised = "none"
           THEN /\ pnl' = [pnl EXCEPT ![r] = out.pnl]
                /\ pc' = [pc EXCEPT ![r] = "pnl_done"]
                /\ UNCHANGED error
           ELSE /\ Raise(r, out.raised)
                /\ UNCHANGED pnl
    /\ UNCHANGED <<rng, seed, current_price, volatility, req, spot_price,
                   final_prices, metrics, result>>

\* lines 172-173: calculate_risk_metrics.  On an empty vector np.percentile
\* or np.min raises (which of the two depends on the numpy release).
CalculateRiskMetricsStep(r) ==
    /\ pc[r] = "pnl_done"
    /\ IF pnl[r] = <<>>
       THEN /\ \E e \in {"EmptyPercentile", "EmptyReduction"} : Raise(r, e)
            /\ UNCHANGED metrics
       ELSE /\ metrics' = [metrics EXCEPT ![r] = CalculateRiskMetrics(pnl[r])]
            /\ pc' = [pc EXCEPT ![r] = "metrics_done"]
            /\ UNCHANGED error
    /\ UNCHANGED <<rng, seed, current_price, volatility, req, spot_price,
                   final_prices, pnl, result>>

\* lines 175-204: the two histograms and the returned dictionary.
\* np.histogram raises ValueError when the range of its input is not finite.
ReturnStep(r) ==
    /\ pc[r] = "metrics_done"
    /\ IF HasNaN(pnl[r]) \/ HasNaN(final_prices[r])
       THEN /\ Raise(r, "NonFiniteRange")
            /\ UNCHANGED result
       ELSE /\ result' = [result EXCEPT ![r] =
                  [strategy |-> req[r].strategy,
                   spot_price |-> spot_price[r],
                   volume |-> Num(req[r].volume),
                   time_horizon |-> req[r].time_horizon,
                   n_simulations |-> req[r].n_simulations,
                   metrics |-> metrics[r],
                   histogram |-> Histogram(pnl[r]),
                   price_distribution |-> Histogram(final_prices[r]),
                   sample_scenarios |->
                       [best_case |-> VMax(pnl[r]),
                        worst_case |-> VMin(pnl[r]),
                        median |-> Median(pnl[r])]]]
            /\ pc' = [pc EXCEPT ![r] = "returned"]
            /\ UNCHANGED error
    /\ UNCHANGED <<rng, seed, current_price, volatility, req, spot_price,
                   final_prices, pnl, metrics>>

Next ==
    \E r \in Runs :
        \/ SimulatePricesStep(r)
        \/ CalculatePnlStep(r)
        \/ CalculateRiskMetricsStep(r)
        \/ ReturnStep(r)

\* run_simulation, one request at a time
Spec == Init /\ [][Next]_vars

\* run_simulation, two requests overlapping
SpecConc == InitConc /\ [][Next]_vars

\* --------------------------------------------- functions checked on their own
\* calculate_pnl applied to any volume > 0, futures price > 0 and vector of
\* positive prices, under every strategy identifier
InitPnl ==
    /\ MarketAtRest
    /\ \E v \in 1..MaxVolume, f \in 1..MaxPrice, s \in StrategyIds,
          prices \in Vectors(1..MaxPrice) :
          /\ req = [r \in Runs |->
                      [volume |-> v, spot_price |-> f, time_horizon |-> 6,
                       strategy |-> s, n_simulations |-> Len(prices)]]
          /\ spot_price = [r \in Runs |-> Num(f)]
          /\ final_prices = [r \in Runs |-> IF r = 1 THEN prices ELSE <<>>]
    /\ pnl = [r \in Runs |-> <<>>]
    /\ metrics = [r \in Runs |-> <<>>]
    /\ result = [r \in Runs |-> <<>>]
    /\ error = [r \in Runs |-> "none"]
    /\ pc = [r \in Runs |-> IF r = 1 THEN "priced" ELSE "idle"]

NextPnl == CalculatePnlStep(1)

SpecPnl == InitPnl /\ [][NextPnl]_vars

\* calculate_risk_metrics applied to any non-empty vector
InitMetrics ==
    /\ MarketAtRest
    /\ \E v \in Vectors((-MaxPnl)..MaxPnl) :
          /\ req = [r \in Runs |->
                      [volume |-> 1, spot_price |-> 1, time_horizon |-> 6,
                       strategy |-> "no_hedge", n_simulations |-> Len(v)]]
          /\ final_prices = [r \in Runs |-> IF r = 1 THEN v ELSE <<>>]
          /\ pnl = [r \in Runs |-> IF r = 1 THEN v ELSE <<>>]
    /\ spot_price = [r \in Runs |-> One]
    /\ metrics = [r \in Runs |-> <<>>]
    /\ result = [r \in Runs |-> <<>>]
    /\ error = [r \in Runs |-> "none"]
    /\ pc = [r \in Runs |-> IF r = 1 THEN "pnl_done" ELSE "idle"]

NextMetrics == CalculateRiskMetricsStep(1)

SpecMetrics == InitMetrics /\ [][NextMetrics]_vars

\* ================================================================= claims
Finished(r) == pc[r] \in {"returned", "failed"}

\* the failures numpy raises on a parameter out of range
InvalidParameterErrors ==
    {"NegativeDimensions", "EmptyPercentile", "EmptyReduction", "NonFiniteRange"}

RECURSIVE SumSeq(_)
SumSeq(v) == IF v = <<>> THEN 0 ELSE Head(v) + SumSeq(Tail(v))

\* x lies strictly between a and b, whichever of the two is larger
StrictlyBetween(x, a, b) ==
    \/ RLt(a, x) /\ RLt(x, b)
    \/ RLt(b, x) /\ RLt(x, a)

\* the vector another strategy gives on the inputs of request r
PnlUnder(r, strategy) ==
    CalculatePnl(Num(req[r].volume), spot_price[r], spot_price[r],
                 final_prices[r], strategy).pnl

\* the request has a parameter out of range
InvalidParameters(q) ==
    q.volume <= 0 \/ q.time_horizon <= 0 \/ q.n_simulations <= 0

C2_InvalidParameterRejected ==
    \A r \in Runs :
        Finished(r) =>
            LET q == req[r]
            IN  /\ InvalidParameters(q) =>
                      /\ pc[r] = "failed"
                      /\ \/ error[r] \in InvalidParameterErrors
                         \/ q.strategy \notin Strategies /\ error[r] = "UnknownStrategy"
                /\ (~InvalidParameters(q) /\ q.spot_price = 0 /\ q.strategy \in Strategies)
                      => pc[r] = "returned"

\* ---- C3 ---------------------------------------------------------------
\* C3: under full_hedge with valid parameters every P&L entry is
\* volume * resolved spot price, so min = max = mean = that value,
\* std = 0 and sharpe_ratio = 0.
C3_FullHedgeConstant ==
    \A r \in Runs :
        (/\ pc[r] = "returned"
         /\ req[r].strategy = "full_hedge"
         /\ req[r].volume > 0 /\ req[r].time_horizon > 0 /\ req[r].n_simulations > 0)
        =>
        LET resolved == IF req[r].spot_price = 0 THEN current_price
                        ELSE Num(req[r].spot_price)
            x == RMul(Num(req[r].volume), resolved)
            m == result[r].metrics
        IN  /\ Len(pnl[r]) = req[r].n_simulations
            /\ \A i \in 1..Len(pnl[r]) : pnl[r][i] = x
            /\ m.min = x /\ m.max = x /\ m.mean = x
            /\ m.variance = Zero
            /\ m.sharpe_ratio[1] = Zero

C5_PercentilesOrdered ==
    pc[1] = "metrics_done" =>
        LET m == metrics[1]
            a == Sort(pnl[1])
            n == Len(pnl[1])
            fifth == IF n = 1 THEN a[1]
                     ELSE RAdd(a[1], RMul(RSub(a[2], a[1]), Rat(n - 1, 20)))
        IN  /\ RLe(m.min, m.percentile_5)
            /\ RLe(m.percentile_5, m.percentile_25)
            /\ RLe(m.percentile_25, m.percentile_50)
            /\ RLe(m.percentile_50, m.percentile_75)
            /\ RLe(m.percentile_75, m.percentile_95)
            /\ RLe(m.percentile_95, m.max)
            /\ m.var_95 = m.percentile_5
            /\ m.var_95 = fifth

\* metrics of an unsorted vector of three different entries
C5_Witness ==
    /\ pc[1] = "metrics_done"
    /\ Len(pnl[1]) = 3
    /\ RLt(pnl[1][2], pnl[1][3]) /\ RLt(pnl[1][3], pnl[1][1])
    /\ RLt(metrics[1].min, metrics[1].percentile_5)
    /\ RLt(metrics[1].percentile_5, metrics[1].percentile_50)
    /\ RLt(metrics[1].percentile_95, metrics[1].max)

\* ---- C6 ---------------------------------------------------------------
\* a histogram of n samples: 50 counts, 51 non-decreasing edges, no negative
\* count, counts adding up to n
HistogramOf(h, n) ==
    /\ Len(h.counts) = 50
    /\ Len(h.bins) = 51
    /\ \A k \in 1..50 : RLe(h.bins[k], h.bins[k + 1])
    /\ \A k \in 1..50 : h.counts[k] >= 0
    /\ SumSeq(h.counts) = n

\* C6: in every result both histograms have 50 counts and 51 non-decreasing
\* edges, no negative count, and counts that add up to n_simulations.
C6_HistogramCounts ==
    \A r \in Runs :
        pc[r] = "returned" =>
            /\ HistogramOf(result[r].histogram, req[r].n_simulations)
            /\ HistogramOf(result[r].price_distribution, req[r].n_simulations)

\* a result whose P&L values are all equal and whose prices are not: the
\* maximum price sits in the last bin
C6_Witness ==
    /\ pc[1] = "returned"
    /\ req[1].n_simulations >= 2
    /\ VMin(pnl[1]) = VMax(pnl[1])
    /\ RLt(VMin(final_prices[1]), VMax(final_prices[1]))
    /\ result[1].price_distribution.counts[50] >= 1
    /\ result[1].histogram.counts[26] = req[1].n_simulations

\* ---- C7 ---------------------------------------------------------------
\* C7: the prices and the P&L a run produces are those its inputs and the
\* seed determine, whatever another run draws in the meantime.
C7_RunsIndependent ==
    \A r \in Runs :
        pc[r] \in {"priced", "pnl_done", "metrics_done", "returned"} =>
            final_prices[r] =
                SimulatePrices(spot_price[r], req[r].time_horizon, volatility,
                               StandardNormal(seed, req[r].n_simulations))

C9_TailAverage ==
    pc[1] = "metrics_done" =>
        LET m == metrics[1]
            tail == LossTail(pnl[1], m.var_95)
        IN  /\ tail # <<>>
            /\ m.min \in Range(tail)
            /\ ~IsNaN(m.es_95)
            /\ RLe(m.min, m.es_95)
            /\ RLe(m.es_95, m.var_95)

\* ---- C10 --------------------------------------------------------------
\* the vector v in the order perm gives
Permuted(v, perm) == [i \in 1..Len(v) |-> v[perm[i]]]

====
